---- MODULE Spec2Model ----
(***************************************************************************)
(* A model of dask_awkward.lib.io: the collection builders of io.py        *)
(* (from_awkward, from_map, from_delayed, PackedArgCallable) and the       *)
(* parquet reader and writer of parquet.py (from_parquet, to_parquet).     *)
(*                                                                         *)
(* Every builder is a pure function of its arguments, so each one is an    *)
(* operator that returns the outcome of the call (the exception raised,    *)
(* the graph layer built, the collection returned), and one action per     *)
(* builder applies it to arguments drawn from bounded sets.  The units of  *)
(* a built graph are run by an external scheduler, one action per unit.    *)
(***************************************************************************)
EXTENDS Integers, Sequences, FiniteSets, TLC

\* ------------------------------------------------------------------ bounds

\* Longest concrete array handed to from_awkward.
MaxLen == 5
\* Largest npartitions handed to from_awkward.
MaxParts == 4
\* Most positional iterables handed to from_map.
MaxIterables == 2
\* Longest iterable handed to from_map.
MaxItems == 2
\* Most data files of a parquet dataset.
MaxFiles == 2
\* Most row groups of one data file.
MaxRowGroups == 2
\* Most deferred handles handed to from_delayed.
MaxHandles == 3
\* Most partitions of a collection written by to_parquet, one unit at a time.
MaxNPartitions == 11
\* Most partitions of a collection written by to_parquet with its units
\* interleaved.
MaxWriters == 4

\* ------------------------------------------------------------ Python values

\* A Python value that travels through a graph: an atom (an int, a path, a
\* string) or a tuple of values.  One record shape for both keeps every
\* comparison well-typed.
Atom(a) == [a |-> a, elems |-> <<>>, tag |-> "atom"]

Tuple(s) == [a |-> 0, elems |-> s, tag |-> "tuple"]

\* The row counts a row group may have.
RowCountChoices == {1, 2}

\* The values a row of a concrete array may hold.
RowValues == {1, 2}

\* The items an iterable of from_map may hold: an atom and a tuple.
Items == {Atom(1), Tuple(<<Atom(1), Atom(2)>>)}

\* All sequences over S of length 0..n.
SeqsUpTo(S, n) == UNION {[1..k -> S] : k \in 0..n}

Min(a, b) == IF a <= b THEN a ELSE b

Max(a, b) == IF a >= b THEN a ELSE b

\* range(start, stop, step) for step >= 1 and start = 0, as a sequence.
Range(stop, step) ==
    LET n == IF stop <= 0 THEN 0 ELSE (stop + step - 1) \div step
    IN  [k \in 1..n |-> (k - 1) * step]

\* seq[start:stop] for 0 <= start, stop (Python clamps both to the length).
Slice(seq, start, stop) ==
    LET hi == Min(stop, Len(seq))
        lo == Min(start, hi)
    IN  SubSeq(seq, lo + 1, hi)

\* A token: the value `tokenize(*parts)` or a caller's string hashes to. Two
\* tokens are equal exactly when what they were computed from is equal.
NoToken == [none |-> TRUE, of |-> <<>>]

Tokenize(parts) == [none |-> FALSE, of |-> parts]

\* A division: a known row offset, or None.
Known(n) == [known |-> TRUE, v |-> n]

Unknown == [known |-> FALSE, v |-> 0]

\* ------------------------------------------------------------- collections

NoLayer == [exists |-> FALSE]

NoCollection == [exists |-> FALSE]

\* new_array_object(hlg, name, meta=..., divisions=... | npartitions=...)
\* (dask_awkward.lib.core): the collection keeps the divisions it is given,
\* or npartitions + 1 unknown ones.
NewArrayObject(name, meta, divisions, npartitions) ==
    [exists |-> TRUE, name |-> name, meta |-> meta,
     divisions |-> IF divisions.none
                   THEN [i \in 1..(npartitions + 1) |-> Unknown]
                   ELSE divisions.v]

\* An optional tuple of divisions: None, or the tuple.
NoDivisions == [none |-> TRUE, v |-> <<>>]

Divisions(s) == [none |-> FALSE, v |-> s]

\* -------------------------------------------------------------- from_map

\* One positional argument of from_map: not an Iterable at all, a sized
\* iterable (len() works) or an unsized one (a generator), with the items
\* iterating it yields.
NotIterable == [iterable |-> FALSE, sized |-> FALSE, items |-> <<>>]

Sized(s) == [iterable |-> TRUE, sized |-> TRUE, items |-> s]

Unsized(s) == [iterable |-> TRUE, sized |-> FALSE, items |-> s]

\* The fixed positional arguments: None, or a tuple.
NoArgs == [none |-> TRUE, v |-> <<>>]

Args(s) == [none |-> FALSE, v |-> s]

\* The keyword arguments of a from_map call: whether produces_tasks is among
\* them (and its value), and the other keys with their values.
Kwargs(pt, other) == [produces_tasks |-> pt, other |-> other]

\* kwargs.pop("produces_tasks", False)
PopProducesTasks(kwargs) == kwargs.produces_tasks = "True"

\* A user function, or an object that is not callable.
UserFunc(id) == [kind |-> "user", id |-> id, callable |-> TRUE]

NotCallable == [kind |-> "object", id |-> "x", callable |-> FALSE]

\* The loop of lines 389-398: the iterables as from_map keeps them (an
\* unsized one is replaced by the list of its items).
ItersOf(iterables) ==
    [i \in 1..Len(iterables) |-> Sized(iterables[i].items)]

\* The set `lengths` built by the same loop.
LengthsOf(iterables) ==
    {Len(iterables[i].items) : i \in 1..Len(iterables)}

\* zip(*iters): stops at the shortest.
MinLen(iters) ==
    IF Len(iters) = 0 THEN 0
    ELSE CHOOSE n \in {Len(iters[i].items) : i \in 1..Len(iters)} :
             \A j \in 1..Len(iters) : n <= Len(iters[j].items)

Zip(iters) ==
    [i \in 1..MinLen(iters) |->
        Tuple([j \in 1..Len(iters) |-> iters[j].items[i]])]

\* FromMapError without the zero-length check of lines 403-404.
FromMapErrorNoZeroCheck(func, iterables, kwargs) ==
    IF ~func.callable THEN "ValueError: func must be callable"
    ELSE IF \E i \in 1..Len(iterables) : ~iterables[i].iterable
    THEN "ValueError: all elements of iterables must be Iterable"
    ELSE IF Cardinality({Len(iterables[i].items) : i \in 1..Len(iterables)}) = 0
    THEN "ValueError: requires at least one Iterable input"
    ELSE IF Cardinality({Len(iterables[i].items) : i \in 1..Len(iterables)}) > 1
    THEN "ValueError: all iterables must have the same length"
    ELSE IF (kwargs.produces_tasks = "True" \/ Len(iterables) = 1)
            /\ Len(iterables) > 1
    THEN "ValueError: multiple iterables not supported when produces_tasks"
    ELSE "none"

\* The checks of lines 385-404 and 410-416, in the code's order: the error
\* raised, or "none".
FromMapError(func, iterables, kwargs) ==
    IF ~func.callable THEN "ValueError: func must be callable"
    ELSE IF \E i \in 1..Len(iterables) : ~iterables[i].iterable
    THEN "ValueError: all elements of iterables must be Iterable"
    ELSE IF Cardinality(LengthsOf(iterables)) = 0
    THEN "ValueError: requires at least one Iterable input"
    ELSE IF Cardinality(LengthsOf(iterables)) > 1
    THEN "ValueError: all iterables must have the same length"
    ELSE IF LengthsOf(iterables) = {0}
    THEN "ValueError: all iterables must have a non-zero length"
    ELSE IF (PopProducesTasks(kwargs) \/ Len(iterables) = 1)
            /\ Len(iterables) > 1
    THEN "ValueError: multiple iterables not supported when produces_tasks"
    ELSE "none"

\* PackedArgCallable(func, args=args, kwargs=kwargs, packed=packed)
PackedArgCallable(func, args, kwargs, packed) ==
    [kind |-> "PackedArgCallable", func |-> func, args |-> args,
     kwargs |-> kwargs, packed |-> packed, callable |-> TRUE]

\* Lines 410-424: whether the inputs are packed tuples.
IsPacked(iters, produces_tasks) ==
    ~(produces_tasks \/ Len(iters) = 1)

\* Lines 417 and 423: the layer's inputs.
InputsOf(iters, packed) ==
    IF packed THEN Zip(iters) ELSE iters[1].items

\* Lines 427-429: the collection's name.
NameOf(func, iters, label, token, meta, other) ==
    [label |-> IF label = "None" THEN func.id ELSE label,
     token |-> IF token.none
               THEN Tokenize(<<func, iters, meta, other>>)
               ELSE token]

\* Lines 432-438: the function the layer calls.
IoFuncOf(func, args, other, packed) ==
    IF packed \/ (~args.none /\ Len(args.v) > 0) \/ other # {}
    THEN PackedArgCallable(func, args, other, packed)
    ELSE func

\* from_map(func, *iterables, args=, label=, token=, divisions=, meta=,
\* **kwargs): the outcome of the call.
FromMap(func, iterables, args, label, token, divisions, meta, kwargs) ==
    LET error  == FromMapError(func, iterables, kwargs)
        iters  == ItersOf(iterables)
        packed == IsPacked(iters, PopProducesTasks(kwargs))
        inputs == InputsOf(iters, packed)
        name   == NameOf(func, iters, label, token, meta, kwargs.other)
        layer  == [exists |-> TRUE, name |-> name, inputs |-> inputs,
                   io_func |-> IoFuncOf(func, args, kwargs.other, packed),
                   meta |-> meta]
    IN  IF error # "none"
        THEN [raised |-> error, layer |-> NoLayer, result |-> NoCollection]
        ELSE [raised |-> "none", layer |-> layer,
              result |-> NewArrayObject(name, meta, divisions, Len(inputs))]

\* ---------------------------------------------------------- materialization

\* *x in a call: the elements of a tuple (a value that is no tuple does not
\* unpack: PackedArgCall reports the TypeError).
Star(x) == IF x.tag = "tuple" THEN x.elems ELSE <<>>

\* PackedArgCall without the wrapping of an unpacked argument (line 335).
PackedArgCallAlwaysUnpack(self, packed_arg) ==
    [func |-> self.func,
     posargs |-> Star(packed_arg) \o (IF self.args.none THEN <<>> ELSE self.args.v),
     kwargs |-> self.kwargs,
     raised |-> IF packed_arg.tag = "tuple" THEN "none" ELSE "TypeError"]

\* PackedArgCallable.__call__(packed_arg): the call it makes to self.func.
PackedArgCall(self, packed_arg) ==
    LET arg == IF ~self.packed THEN Tuple(<<packed_arg>>) ELSE packed_arg
    IN  [func |-> self.func,
         posargs |-> Star(arg) \o (IF self.args.none THEN <<>> ELSE self.args.v),
         kwargs |-> self.kwargs,
         raised |-> IF arg.tag = "tuple" THEN "none" ELSE "TypeError"]

\* The task of key (name, i) of an AwkwardIOLayer (dask_awkward.layers):
\* io_func(inputs[i]).  The call that reaches the wrapped function.
UnitCall(lyr, i) ==
    IF lyr.io_func.kind = "PackedArgCallable"
    THEN PackedArgCall(lyr.io_func, lyr.inputs[i + 1])
    ELSE [func |-> lyr.io_func, posargs |-> <<lyr.inputs[i + 1]>>,
          kwargs |-> {}, raised |-> "none"]

\* ------------------------------------------------------------ parquet reads

\* An optional list of row-group indices, as an entry of `subrg`: None, or
\* the list.
NoRowGroups == [none |-> TRUE, v |-> <<>>]

RowGroups(s) == [none |-> FALSE, v |-> s]

\* _file_to_partition(path, fs, columns, schema, subrg=None): the arguments
\* of the _load call it makes (`subrg or [None]`).
FileToPartition(path, columns, schema, subrg) ==
    [actual_paths |-> <<path>>,
     parquet_columns |-> columns,
     subrg |-> IF Len(subrg) = 0 THEN <<NoRowGroups>> ELSE subrg,
     subform |-> schema]

\* _FromParquetFileWiseFn(fs, columns, schema)
FromParquetFileWiseFn(columns, schema) ==
    [kind |-> "_FromParquetFileWiseFn", id |-> "_FromParquetFileWiseFn",
     columns |-> columns, schema |-> schema, callable |-> TRUE]

\* _FromParquetFileWiseFn.__call__(source)
FileWiseCall(self, source) ==
    FileToPartition(source, self.columns, self.schema, <<>>)

\* _FromParquetFragmentWiseFn(fs, columns, schema)
FromParquetFragmentWiseFn(columns, schema) ==
    [kind |-> "_FromParquetFragmentWiseFn", id |-> "_FromParquetFragmentWiseFn",
     columns |-> columns, schema |-> schema, callable |-> TRUE]

\* _FromParquetFragmentWiseFn.__call__(pair): the pair's first element is an
\* int, so subrg becomes [[subrg]].
FragmentWiseCall(self, pair) ==
    FileToPartition(pair.elems[2], self.columns, self.schema,
                    <<RowGroups(<<pair.elems[1].a>>)>>)

\* _FromAwkwardFn.__call__(start, stop): self.arr[start:stop]
FromAwkwardFnCall(self, start, stop) == Slice(self.arr, start, stop)

\* What the called function returns: the slice for _FromAwkwardFn, the read
\* (the arguments of _load) for the parquet functions; a user function's
\* value is opaque.
UnitValue(lyr, i) ==
    LET c == UnitCall(lyr, i)
    IN  IF c.raised # "none" THEN <<>>
        ELSE IF c.func.kind = "_FromAwkwardFn"
        THEN FromAwkwardFnCall(c.func, c.posargs[1].a, c.posargs[2].a)
        ELSE IF c.func.kind = "_FromParquetFileWiseFn"
        THEN FileWiseCall(c.func, c.posargs[1])
        ELSE IF c.func.kind = "_FromParquetFragmentWiseFn"
        THEN FragmentWiseCall(c.func, c.posargs[1])
        ELSE <<>>

\* ------------------------------------------------------------ from_awkward

\* _FromAwkwardFn(arr)
FromAwkwardFn(arr) ==
    [kind |-> "_FromAwkwardFn", id |-> "_FromAwkwardFn", arr |-> arr,
     callable |-> TRUE]

\* ChunkSize with the division rounded down instead of up.
ChunkSizeFloor(nrows, npartitions) == nrows \div npartitions

\* int(math.ceil(nrows / npartitions)), npartitions >= 1
ChunkSize(nrows, npartitions) == (nrows + npartitions - 1) \div npartitions

\* locs = list(range(0, nrows, chunksize)) + [nrows]
Locs(nrows, chunksize) == Range(nrows, chunksize) \o <<nrows>>

\* from_awkward(source, npartitions, label): the outcome of the call.
\* range() raises ValueError when its step, the chunk size, is zero.
FromAwkward(source, npartitions, label) ==
    LET nrows     == Len(source)
        chunksize == ChunkSize(nrows, npartitions)
        locs      == Locs(nrows, chunksize)
        starts    == [i \in 1..(Len(locs) - 1) |-> Atom(locs[i])]
        stops     == [i \in 1..(Len(locs) - 1) |-> Atom(locs[i + 1])]
    IN  IF chunksize = 0
        THEN [raised |-> "ValueError: range() arg 3 must not be zero",
              layer |-> NoLayer, result |-> NoCollection]
        ELSE FromMap(FromAwkwardFn(source),
                     <<Sized(starts), Sized(stops)>>,
                     NoArgs,
                     IF label = "None" THEN "from-awkward" ELSE label,
                     Tokenize(<<source, npartitions>>),
                     Divisions([i \in 1..Len(locs) |-> Known(locs[i])]),
                     "typetracer",
                     Kwargs("absent", {}))

\* ------------------------------------------------------------ from_parquet

\* A parquet dataset on disk: its data files in path order, each the row
\* counts of its row groups; whether a dataset-level _metadata file exists;
\* and whether the row groups of the metadata name their file (file_path).
Dataset(files, has_metadata, membership) ==
    [files |-> files, has_metadata |-> has_metadata, membership |-> membership]

\* The path of data file f.
PathOf(f) == Atom(f)

\* The row groups of a dataset in file order, then row-group order: each a
\* row count, its file and its index within that file.
RECURSIVE AllRowGroups(_, _)
AllRowGroups(files, n) ==
    IF n = 0 THEN <<>>
    ELSE AllRowGroups(files, n - 1)
         \o [r \in 1..Len(files[n]) |->
                [num_rows |-> files[n][r], file |-> n, index |-> r - 1]]

\* ak_from_parquet.metadata(path, storage_options, row_groups=None, columns=,
\* ignore_metadata=, scan_files=), the external reader of lines 90-98: the
\* paths of the data files; subrg, one None per file as no row groups were
\* asked for; row_counts, known when the _metadata file exists and is not
\* ignored; and the metadata object, listing every row group of the dataset
\* with its row count and, when it names one, its file.
Metadata(ds, columns, ignore_metadata) ==
    LET rgs == AllRowGroups(ds.files, Len(ds.files))
    IN  [parquet_columns |-> columns,
         subform |-> [projected |-> columns],
         actual_paths |-> [f \in 1..Len(ds.files) |-> PathOf(f)],
         subrg |-> [f \in 1..Len(ds.files) |-> NoRowGroups],
         row_counts |-> IF ds.has_metadata /\ ~ignore_metadata
                        THEN RowGroups([k \in 1..Len(rgs) |-> rgs[k].num_rows])
                        ELSE NoRowGroups,
         metadata |-> [k \in 1..Len(rgs) |->
                          [num_rows |-> rgs[k].num_rows,
                           file_path |-> IF ds.membership THEN rgs[k].file ELSE 0]]]

\* Lines 99-100: split_row_groups after its default is resolved.
SplitRowGroups(split_row_groups, row_counts) ==
    IF split_row_groups = "None"
    THEN IF ~row_counts.none /\ Len(row_counts.v) > 1 THEN "True" ELSE "False"
    ELSE split_row_groups

\* list(range(n)) as atoms.
RangeList(n) == [k \in 1..Max(n, 0) |-> Atom(k - 1)]

\* Lines 126-132: rgs_paths, the number of row groups counted for each file:
\* a row group counts for the file its file_path names, and for the first
\* file when it names none.
RgsPaths(results) ==
    [f \in 1..Len(results.actual_paths) |->
        Cardinality({k \in 1..Len(results.metadata) :
            \/ results.metadata[k].file_path = f
            \/ results.metadata[k].file_path = 0 /\ f = 1})]

\* Lines 125-134: subrg rebuilt when no row groups were asked for (subrg is
\* then one None per file, so the branch is always taken).  The comprehension
\* of line 134 does not read rgs_paths: it reads the loop variable i, the
\* index of the last row group of the metadata, for every file.
SubrgOf(results) ==
    LET i == Len(results.metadata) - 1
    IN  [f \in 1..Len(results.actual_paths) |-> RowGroups(RangeList(i))]

\* Lines 136-139: the divisions, the running sum of the row groups' rows.
RECURSIVE Accumulate(_, _)
Accumulate(metadata, n) ==
    IF n = 0 THEN <<0>>
    ELSE LET d == Accumulate(metadata, n - 1)
         IN  d \o <<d[n] + metadata[n].num_rows>>

\* Lines 140-142: the (row group, path) pairs, file by file.
RECURSIVE PairsOf(_, _, _)
PairsOf(subrg, actual_paths, n) ==
    IF n = 0 THEN <<>>
    ELSE PairsOf(subrg, actual_paths, n - 1)
         \o [k \in 1..Len(subrg[n].v) |->
                Tuple(<<subrg[n].v[k], actual_paths[n]>>)]

\* from_parquet(path, ignore_metadata=, scan_files=, columns=, filters=,
\* split_row_groups=): the outcome of the call.  With no row group in the
\* metadata the loop of line 127 never binds i, and line 134 raises NameError.
FromParquet(ds, ignore_metadata, scan_files, columns, filters, split_row_groups) ==
    LET token   == Tokenize(<<ds, ignore_metadata, columns, filters, scan_files,
                              split_row_groups>>)
        results == Metadata(ds, columns, ignore_metadata)
        split   == SplitRowGroups(split_row_groups, results.row_counts)
        subrg   == SubrgOf(results)
        divs    == Accumulate(results.metadata, Len(results.metadata))
        pairs   == PairsOf(subrg, results.actual_paths, Len(results.actual_paths))
    IN  IF split = "False"
        THEN FromMap(FromParquetFileWiseFn(columns, results.subform),
                     <<Sized(results.actual_paths)>>,
                     NoArgs, "read-parquet", token, NoDivisions, "typetracer",
                     Kwargs("absent", {}))
        ELSE IF Len(results.metadata) = 0
        THEN [raised |-> "NameError: i", layer |-> NoLayer,
              result |-> NoCollection]
        ELSE FromMap(FromParquetFragmentWiseFn(columns, results.subform),
                     <<Sized(pairs)>>,
                     NoArgs, "read-parquet", token,
                     Divisions([k \in 1..Len(divs) |-> Known(divs[k])]),
                     "typetracer", Kwargs("absent", {}))

\* ------------------------------------------------------------ from_delayed

\* from_delayed(source, meta=, divisions=, prefix="from-delayed"): the outcome
\* of the call.  `source` is one Delayed or a list of them, each known by its
\* key; the graph maps key (name, i) to the key of part i.
FromDelayed(source, meta, divisions) ==
    LET parts == source.handles
        name  == [label |-> "from-delayed", token |-> Tokenize(parts)]
        dsk   == [i \in 1..Len(parts) |-> parts[i]]
        divs  == IF divisions.none
                 THEN [i \in 1..(Len(parts) + 1) |-> Unknown]
                 ELSE divisions.v
    IN  IF ~divisions.none /\ Len(divs) # Len(parts) + 1
        THEN [raised |-> "ValueError: divisions must be a tuple of length len(source) + 1",
              layer |-> NoLayer, result |-> NoCollection]
        ELSE [raised |-> "none",
              layer |-> [exists |-> TRUE, name |-> name, dsk |-> dsk,
                         dependencies |-> parts],
              result |-> NewArrayObject(name, meta, Divisions(divs), Len(parts))]

\* -------------------------------------------------------------- to_parquet

DigitChars == <<"0", "1", "2", "3", "4", "5", "6", "7", "8", "9">>

\* str(n) for n >= 0, as a sequence of characters.
RECURSIVE Str(_)
Str(n) ==
    IF n < 10 THEN <<DigitChars[n + 1]>>
    ELSE Str(n \div 10) \o <<DigitChars[(n % 10) + 1]>>

\* s.zfill(width)
ZFill(s, width) ==
    IF Len(s) >= width THEN s ELSE [i \in 1..(width - Len(s)) |-> "0"] \o s

RECURSIVE Pow10(_)
Pow10(w) == IF w = 0 THEN 1 ELSE 10 * Pow10(w - 1)

\* math.ceil(math.log(n, 10)) for n >= 1: the least w with 10^w >= n.
RECURSIVE CeilLog10From(_, _)
CeilLog10From(n, w) == IF Pow10(w) >= n THEN w ELSE CeilLog10From(n, w + 1)

\* The zfill width taken to be the number of decimal digits of npartitions.
ZFillWidthDigitsOfN(npartitions) == Len(Str(npartitions))

\* _ToParquetFn.__init__, lines 277-279: self.zfill (npartitions is given).
ZFillWidth(npartitions) == CeilLog10From(npartitions, 0)

\* _ToParquetFn(fs, path=path, npartitions=npartitions), as to_parquet builds
\* it: return_metadata keeps its default, False.
ToParquetFn(path, npartitions) ==
    [kind |-> "_ToParquetFn", path |-> path, return_metadata |-> FALSE,
     zfill |-> ZFillWidth(npartitions), callable |-> TRUE]

\* The file name with the index of the first partition for every partition.
FilenameOfHead(self, index) ==
    <<"part">> \o ZFill(Str(0), self.zfill) \o <<".parquet">>

\* _ToParquetFn.__call__, line 282: the file name of partition block_index[0].
FilenameOf(self, index) ==
    <<"part">> \o ZFill(Str(index), self.zfill) \o <<".parquet">>

\* _write_partition, line 241: the path opened, fs.sep.join([path, filename]).
PathOfPartition(self, index) ==
    <<self.path, "/">> \o FilenameOf(self, index)

\* _write_partition, lines 250-259: what a unit returns.
WritePartitionResult(self, index) ==
    IF self.return_metadata THEN <<[meta |-> index]>> ELSE <<>>

\* The attributes of a Python list that the model names.  What a write unit
\* returns is a list in both branches of lines 250-259, and a list has neither
\* append_row_groups nor write_metadata_file.
ListAttributes == {"append", "extend"}

\* _write_metadata, line 213: the path of the dataset-level file.
MetadataPath(out_path) == <<out_path, "/", "_metadata">>

\* _write_metadata, lines 211-218: opens <out_path>/_metadata for writing,
\* which creates it, and calls meta.write_metadata_file on the open file.
WriteMetadata(fs, out_path, meta) ==
    IF "write_metadata_file" \in ListAttributes
    THEN [raised |-> "none", files |-> fs \cup {MetadataPath(out_path)}]
    ELSE [raised |->
              "AttributeError: 'list' object has no attribute 'write_metadata_file'",
          files |-> fs \cup {MetadataPath(out_path)}]

\* _metadata_file_from_metas, lines 203-208: metas[0].append_row_groups(m)
\* for every later m, then _write_metadata.  metas are the values the write
\* units returned, in partition order.
MetadataFileFromMetas(fs, out_path, metas) ==
    IF Len(metas) > 1 /\ "append_row_groups" \notin ListAttributes
    THEN [raised |->
              "AttributeError: 'list' object has no attribute 'append_row_groups'",
          files |-> fs]
    ELSE WriteMetadata(fs, out_path, metas[1])

\* ------------------------------------------------------------ to_dask_array

\* The representative value of a collection handed to to_dask_array: None,
\* or the type of one row of a rectilinear array.
MetaArgs == {"None", "int64", "2 * int64"}

\* array.ndim, line 228: one more than the nesting of a row.
Ndim(meta) == IF meta = "int64" THEN 1 ELSE 2

\* The primitive at the bottom of the form, lines 233 and 245-250.
PrimitiveToDtype(meta) == "int64"

\* array.npartitions.
NPartitions(array) == Len(array.divisions) - 1

\* A key of a graph: a name and the indices after it.
Key(name, index) == [name |-> name, index |-> index]

\* map_partitions(ak.to_numpy, array, meta=empty_typetracer()), line 231
\* (dask_awkward.lib.core): a new collection whose partition i is
\* ak.to_numpy of partition i of array.
MapPartitionsToNumpy(array) ==
    LET name == <<"to_numpy", Tokenize(<<"ak.to_numpy", array.name>>)>>
    IN  [name |-> name,
         dask |-> [exists |-> TRUE, name |-> name,
                   dsk |-> [k \in 1..NPartitions(array) |->
                               [key  |-> Key(name, <<k - 1>>),
                                task |-> [func |-> "ak.to_numpy",
                                          arg |-> Key(array.name, <<k - 1>>)]]],
                   dependencies |-> <<array.name>>]]

\* new_da_object(graph, name, meta=None, chunks=, dtype=), lines 235-241 and
\* 264.
NewDaObject(name, chunks, dtype) ==
    [exists |-> TRUE, name |-> name, meta |-> "None", chunks |-> chunks,
     dtype |-> dtype]

\* to_dask_array, lines 228-264: what it builds once the representative
\* value is known to be present.
ToDaskArrayGraph(array) ==
    LET ndim == Ndim(array.meta)
        n    == NPartitions(array)
        nans == [k \in 1..n |-> "nan"]
    IN  IF ndim = 1
        THEN LET new == MapPartitionsToNumpy(array)
             IN  [raised |-> "none",
                  layer  |-> new.dask,
                  result |-> NewDaObject(new.name, <<nans>>,
                                         PrimitiveToDtype(array.meta))]
        ELSE LET name  == <<"to-dask-array", Tokenize(<<array>>)>>
                 zeros == [d \in 1..(ndim - 1) |-> 0]
                 inner == [d \in 1..(ndim - 1) |-> <<"nan">>]
                 llg   == [k \in 1..n |->
                              [key  |-> Key(name, <<k - 1>> \o zeros),
                               task |-> [func |-> "ak.to_numpy",
                                         arg |-> Key(array.name, <<k - 1>>)]]]
             IN  [raised |-> "none",
                  layer  |-> [exists |-> TRUE, name |-> name, dsk |-> llg,
                              dependencies |-> <<array.name>>],
                  result |-> NewDaObject(name, <<nans>> \o inner,
                                         PrimitiveToDtype(array.meta))]

\* to_dask_array without the check of lines 225-226.
ToDaskArrayUnchecked(array) == ToDaskArrayGraph(array)

\* to_dask_array(array), lines 206-264.
ToDaskArray(array) ==
    IF array.meta = "None"
    THEN [raised |-> "ValueError: Array metadata required for determining dtype",
          layer |-> NoLayer, result |-> NoCollection]
    ELSE ToDaskArrayGraph(array)

\* -------------------------------------------------------------------- state

VARIABLES
    op,       \* the call whose outcome the state holds, "idle" before any
    request,  \* that call's arguments
    raised,   \* the exception the call raised, "none" if it returned
    layer,    \* the graph layer the call built
    coll,     \* the collection the call returned
    unit,     \* the unit of the graph the scheduler ran
    writers,  \* to_parquet: each partition-write unit's progress and path
    files,    \* to_parquet: the paths that exist under the dataset root
    final     \* to_parquet: the final unit's progress

vars == <<op, request, raised, layer, coll, unit, writers, files, final>>

NoUnit == [ran |-> FALSE]

NoRequest == [none |-> TRUE]

Init ==
    /\ op = "idle"
    /\ request = NoRequest
    /\ raised = "none"
    /\ layer = NoLayer
    /\ coll = NoCollection
    /\ unit = NoUnit
    /\ writers = <<>>
    /\ files = {}
    /\ final = "none"

\* The state after a builder returned or raised.
Built(name, req, out) ==
    /\ op' = name
    /\ request' = req
    /\ raised' = out.raised
    /\ layer' = out.layer
    /\ coll' = out.result
    /\ unit' = NoUnit
    /\ UNCHANGED <<writers, files, final>>

\* The arguments the model hands to from_map.
IterableArgs ==
    {NotIterable}
    \cup {Sized(s) : s \in SeqsUpTo(Items, MaxItems)}
    \cup {Unsized(s) : s \in SeqsUpTo({Atom(1)}, MaxItems)}

FuncArgs == {UserFunc("f"), NotCallable}

ArgsArgs == {NoArgs, Args(<<Atom(9)>>)}

KwargsArgs ==
    {Kwargs(pt, other) :
        pt \in {"absent", "True"},
        other \in {{}, {[key |-> "k", val |-> Atom(7)]}}}

\* A call of from_map.
CallFromMap ==
    /\ op = "idle"
    /\ \E func \in FuncArgs, iterables \in SeqsUpTo(IterableArgs, MaxIterables),
          args \in ArgsArgs, kwargs \in KwargsArgs :
         Built("from_map",
               [func |-> func, iterables |-> iterables, args |-> args,
                kwargs |-> kwargs],
               FromMap(func, iterables, args, "None", NoToken, NoDivisions,
                       "None", kwargs))

\* The arguments the model hands to two calls of from_map whose names are
\* compared: valid ones, so that both calls return a collection.
NamedFuncArgs == {UserFunc("f"), UserFunc("g")}

NamedIterableArgs == {Sized(<<Atom(1)>>), Sized(<<Atom(2)>>)}

LabelArgs == {"None", "f"}

FromMapMetaArgs == {"None", "int64"}

NamedRequests ==
    {[func |-> func, iterables |-> iterables, args |-> args, label |-> label,
      meta |-> meta, kwargs |-> Kwargs("absent", other)] :
        func \in NamedFuncArgs,
        iterables \in SeqsUpTo(NamedIterableArgs, MaxIterables) \ {<<>>},
        args \in ArgsArgs, label \in LabelArgs, meta \in FromMapMetaArgs,
        other \in {{}, {[key |-> "k", val |-> Atom(7)]}}}

\* from_map on a request that names label and meta, with no token.
FromMapOf(req) ==
    FromMap(req.func, req.iterables, req.args, req.label, NoToken, NoDivisions,
            req.meta, req.kwargs)

\* A call of from_map with a label and a meta.
CallFromMapNamed ==
    /\ op = "idle"
    /\ \E req \in NamedRequests : Built("from_map", req, FromMapOf(req))

\* A second call of from_map in the same process, after the first returned
\* its collection: the state keeps the first call's arguments and name.
CallFromMapAgain ==
    /\ op = "from_map"
    /\ coll # NoCollection
    /\ \E req \in NamedRequests :
         Built("from_map_again",
               [first |-> request, first_name |-> coll.name, second |-> req],
               FromMapOf(req))

\* A call of from_awkward.
CallFromAwkward ==
    /\ op = "idle"
    /\ \E source \in SeqsUpTo(RowValues, MaxLen), npartitions \in 1..MaxParts :
         Built("from_awkward",
               [source |-> source, npartitions |-> npartitions],
               FromAwkward(source, npartitions, "None"))

\* The datasets and selections the model hands to from_parquet: one or more
\* data files, each of one or more row groups of equal size.
FileArgs ==
    {[r \in 1..n |-> c] : n \in 1..MaxRowGroups, c \in RowCountChoices}

DatasetArgs ==
    {Dataset(files_, has_metadata, membership) :
        files_ \in SeqsUpTo(FileArgs, MaxFiles) \ {<<>>},
        has_metadata \in BOOLEAN, membership \in BOOLEAN}

ColumnsArgs == {"None", "x"}

FiltersArgs == {"None", "x > 0"}

\* A call of from_parquet.
CallFromParquet ==
    /\ op = "idle"
    /\ \E ds \in DatasetArgs, ignore_metadata \in BOOLEAN,
          columns \in ColumnsArgs, filters \in FiltersArgs,
          split_row_groups \in {"None", "True", "False"} :
         Built("from_parquet",
               [ds |-> ds, ignore_metadata |-> ignore_metadata,
                columns |-> columns, filters |-> filters,
                split_row_groups |-> split_row_groups],
               FromParquet(ds, ignore_metadata, FALSE, columns, filters,
                           split_row_groups))

\* The sources and divisions the model hands to from_delayed.
SourceArgs ==
    {[single |-> FALSE, handles |-> h] : h \in SeqsUpTo({1, 2}, MaxHandles)}
    \cup {[single |-> TRUE, handles |-> <<k>>] : k \in {1, 2}}

DivisionsArgs ==
    {NoDivisions}
    \cup {Divisions(d) : d \in SeqsUpTo({Unknown, Known(0)}, MaxHandles + 2)}

\* A call of from_delayed.
CallFromDelayed ==
    /\ op = "idle"
    /\ \E source \in SourceArgs, divisions \in DivisionsArgs :
         Built("from_delayed",
               [source |-> source, divisions |-> divisions],
               FromDelayed(source, "None", divisions))

\* The scheduler runs unit i of the layer the call built.  The units are
\* independent of each other, and the state keeps one of them.
Materialize ==
    /\ op \in {"from_map", "from_awkward", "from_parquet"}
    /\ layer # NoLayer
    /\ unit = NoUnit
    /\ \E i \in 0..(Len(layer.inputs) - 1) :
         unit' = [ran |-> TRUE, i |-> i, call |-> UnitCall(layer, i),
                  value |-> UnitValue(layer, i)]
    /\ UNCHANGED <<op, request, raised, layer, coll, writers, files, final>>

\* A call of to_dask_array on a collection of 1..MaxParts partitions.
CallToDaskArray ==
    /\ op = "idle"
    /\ \E meta \in MetaArgs, npartitions \in 1..MaxParts :
         LET array == NewArrayObject(<<"array">>, meta, NoDivisions, npartitions)
         IN  Built("to_dask_array", [array |-> array], ToDaskArray(array))

\* The scheduler runs the unit of key i of the layer to_dask_array added.
ComputeDaskArray ==
    /\ op = "to_dask_array"
    /\ layer # NoLayer
    /\ unit = NoUnit
    /\ \E i \in 0..(Len(layer.dsk) - 1) :
         unit' = [ran |-> TRUE, i |-> i, call |-> layer.dsk[i + 1].task]
    /\ UNCHANGED <<op, request, raised, layer, coll, writers, files, final>>

\* A partition-write unit: not started, holding its file open, or finished
\* with what it returned.
Pending == [pc |-> "pending", path |-> <<>>, result |-> <<>>]

\* to_parquet(data, path, write_metadata=) on a collection of up to n
\* partitions: the graph of lines 324-341, one write unit per partition and a
\* final unit that depends on them all.  Lines 343-344 hand it to the
\* scheduler.
CallToParquet(n) ==
    /\ op = "idle"
    /\ \E npartitions \in 1..n, write_metadata \in BOOLEAN :
         /\ op' = "to_parquet"
         /\ request' = [npartitions |-> npartitions,
                        write_metadata |-> write_metadata]
         /\ raised' = "none"
         /\ layer' = [exists |-> TRUE,
                      io_func |-> ToParquetFn("root", npartitions),
                      npartitions |-> npartitions]
         /\ coll' = NoCollection
         /\ unit' = NoUnit
         /\ writers' = [k \in 1..npartitions |-> Pending]
         /\ files' = {}
         /\ final' = "pending"

\* Unit k of to_parquet opens its file for writing (line 241): the path
\* exists from then on.
OpenPartition(k) ==
    /\ writers[k + 1].pc = "pending"
    /\ writers' = [writers EXCEPT ![k + 1] =
                      [pc |-> "open",
                       path |-> PathOfPartition(layer.io_func, k),
                       result |-> <<>>]]
    /\ files' = files \cup {PathOfPartition(layer.io_func, k)}
    /\ UNCHANGED <<op, request, raised, layer, coll, unit, final>>

\* Unit k writes its table, closes the file and returns (lines 242-259).
ClosePartition(k) ==
    /\ writers[k + 1].pc = "open"
    /\ writers' = [writers EXCEPT ![k + 1] =
                      [pc |-> "done", path |-> @.path,
                       result |-> WritePartitionResult(layer.io_func, k)]]
    /\ UNCHANGED <<op, request, raised, layer, coll, unit, files, final>>

\* The scheduler starts a write unit while others may hold their files open.
StartWrite ==
    /\ op = "to_parquet"
    /\ \E k \in 0..(request.npartitions - 1) : OpenPartition(k)

\* The scheduler lets a started write unit finish.
FinishWrite ==
    /\ op = "to_parquet"
    /\ \E k \in 0..(request.npartitions - 1) : ClosePartition(k)

\* The scheduler runs a write unit from start to end with no other unit in
\* between.
WritePartition ==
    /\ op = "to_parquet"
    /\ \E k \in 0..(request.npartitions - 1) :
         /\ writers[k + 1].pc = "pending"
         /\ writers' = [writers EXCEPT ![k + 1] =
                           [pc |-> "done",
                            path |-> PathOfPartition(layer.io_func, k),
                            result |-> WritePartitionResult(layer.io_func, k)]]
         /\ files' = files \cup {PathOfPartition(layer.io_func, k)}
         /\ UNCHANGED <<op, request, raised, layer, coll, unit, final>>

\* What the final unit is handed (lines 335-337 and 340): the value of
\* every key of map_res, in partition order.
DaskKeysResults == [k \in 1..Len(writers) |-> writers[k].result]

\* The final unit of to_parquet (lines 332-341).  It depends on map_res, so
\* the scheduler runs it once every write unit has returned: with
\* write_metadata it is _metadata_file_from_metas(fs, path, *results),
\* otherwise a function that returns None.
FinalUnit ==
    /\ op = "to_parquet"
    /\ final = "pending"
    /\ \A k \in 1..request.npartitions : writers[k].pc = "done"
    /\ IF ~request.write_metadata
       THEN final' = "done" /\ UNCHANGED <<files, raised>>
       ELSE LET out == MetadataFileFromMetas(files, layer.io_func.path,
                                             DaskKeysResults)
            IN  /\ final' = IF out.raised = "none" THEN "done" ELSE "failed"
                /\ raised' = out.raised
                /\ files' = out.files
    /\ UNCHANGED <<op, request, layer, coll, unit, writers>>

\* The caller drops the outcome; the next call starts afresh.
Return ==
    /\ op # "idle"
    /\ op' = "idle"
    /\ request' = NoRequest
    /\ raised' = "none"
    /\ layer' = NoLayer
    /\ coll' = NoCollection
    /\ unit' = NoUnit
    /\ writers' = <<>>
    /\ files' = {}
    /\ final' = "none"

Next ==
    \/ CallFromMap
    \/ CallFromAwkward
    \/ CallFromParquet
    \/ CallFromDelayed
    \/ CallToParquet(MaxNPartitions)
    \/ CallToDaskArray
    \/ Materialize
    \/ ComputeDaskArray
    \/ WritePartition
    \/ FinalUnit
    \/ Return

Spec == Init /\ [][Next]_vars

\* Two calls of from_map, one after the other.
NextNaming ==
    \/ CallFromMapNamed
    \/ CallFromMapAgain
    \/ Return

SpecNaming == Init /\ [][NextNaming]_vars

\* to_parquet under a scheduler that interleaves the write units.
NextConcurrent ==
    \/ CallToParquet(MaxWriters)
    \/ StartWrite
    \/ FinishWrite
    \/ FinalUnit
    \/ Return

SpecConcurrent == Init /\ [][NextConcurrent]_vars

\* ------------------------------------------------------------------ claims

\* ceil(a / b) for b >= 1, from its defining inequalities.
CeilDiv(a, b) == CHOOSE c \in 0..a : c * b >= a /\ (c = 0 \/ (c - 1) * b < a)

\* The concatenation of the values of units 0..n-1 of a layer, in index order.
RECURSIVE ConcatUnits(_, _)
ConcatUnits(lyr, n) ==
    IF n = 0 THEN <<>> ELSE ConcatUnits(lyr, n - 1) \o UnitValue(lyr, n - 1)

\* C1: from_awkward(arr, N) with N >= 1 and an array of any length returns a
\* collection of exactly N partitions: N (start, stop) inputs reach from_map
\* and divisions has N + 1 entries.
C1_ExactlyNPartitions ==
    op = "from_awkward" =>
        /\ raised = "none"
        /\ layer # NoLayer
        /\ Len(layer.inputs) = request.npartitions
        /\ Len(coll.divisions) = request.npartitions + 1

\* C2: for N >= 1 and an array of length L >= 1 the divisions of from_awkward
\* start at 0, increase strictly and end at L; every step is ceil(L/N) except
\* possibly the last, which is between 1 and ceil(L/N); partition i is
\* arr[divisions[i]:divisions[i+1]], and the partitions concatenated in index
\* order are arr.
C2_DivisionsCoverArray ==
    (op = "from_awkward" /\ Len(request.source) >= 1) =>
        LET arr == request.source
            L   == Len(arr)
            c   == CeilDiv(L, request.npartitions)
            d   == coll.divisions
            n   == Len(d) - 1
        IN  /\ raised = "none"
            /\ n >= 1
            /\ Len(layer.inputs) = n
            /\ \A i \in 1..(n + 1) : d[i].known
            /\ d[1].v = 0
            /\ d[n + 1].v = L
            /\ \A i \in 1..n : d[i].v < d[i + 1].v
            /\ \A i \in 1..(n - 1) : d[i + 1].v - d[i].v = c
            /\ d[n + 1].v - d[n].v \in 1..c
            /\ \A i \in 0..(n - 1) :
                   UnitValue(layer, i) = SubSeq(arr, d[i + 1].v + 1, d[i + 2].v)
            /\ ConcatUnits(layer, n) = arr
            /\ unit # NoUnit =>
                   unit.value = SubSeq(arr, d[unit.i + 1].v + 1, d[unit.i + 2].v)

\* C2's case: a later partition of an array that does not split evenly has
\* been materialized, and is the short last one.
C2_Witness ==
    /\ op = "from_awkward"
    /\ unit # NoUnit
    /\ Len(request.source) = 5
    /\ request.npartitions = 2
    /\ unit.i = 1
    /\ Len(unit.value) = 2

\* The positional arguments of a from_map call that are Iterable.
IterableOnes(req) ==
    {i \in 1..Len(req.iterables) : req.iterables[i].iterable}

\* The five conditions C3 lists, read off the call's arguments.
C3_Listed(req) ==
    \/ ~req.func.callable
    \/ IterableOnes(req) = {}
    \/ \E i, j \in IterableOnes(req) :
           Len(req.iterables[i].items) # Len(req.iterables[j].items)
    \/ /\ IterableOnes(req) # {}
       /\ \A i \in IterableOnes(req) : Len(req.iterables[i].items) = 0
    \/ /\ req.kwargs.produces_tasks = "True"
       /\ Cardinality(IterableOnes(req)) > 1

\* A ValueError was raised with no layer built, no collection returned and no
\* unit run.
C3_Rejected ==
    /\ raised \in {"ValueError: func must be callable",
                   "ValueError: all elements of iterables must be Iterable",
                   "ValueError: requires at least one Iterable input",
                   "ValueError: all iterables must have the same length",
                   "ValueError: all iterables must have a non-zero length",
                   "ValueError: multiple iterables not supported when produces_tasks"}
    /\ layer = NoLayer
    /\ coll = NoCollection
    /\ unit = NoUnit

\* C3 as stated: from_map raises a ValueError, before any layer or collection
\* is built and without calling func, exactly when func is not callable, no
\* iterable is given, the iterables differ in length, all have length zero, or
\* produces_tasks comes with more than one iterable.
C3_Original ==
    op = "from_map" =>
        IF C3_Listed(request) THEN C3_Rejected ELSE raised = "none"

\* C3 as amended: the same, with a sixth condition: a positional argument
\* that is not an Iterable.
C3_RaisesExactlyWhenInvalid ==
    op = "from_map" =>
        IF C3_Listed(request)
           \/ \E i \in 1..Len(request.iterables) : ~request.iterables[i].iterable
        THEN C3_Rejected
        ELSE raised = "none" /\ layer # NoLayer /\ coll # NoCollection

\* C3's case: a call with a callable and two iterables of unequal length was
\* rejected.
C3_Witness ==
    /\ op = "from_map"
    /\ request.func.callable
    /\ Len(request.iterables) = 2
    /\ \A i \in 1..2 : request.iterables[i].iterable
    /\ Len(request.iterables[1].items) # Len(request.iterables[2].items)
    /\ raised = "ValueError: all iterables must have the same length"

\* The call C4 expects of unit i: func(it_1[i], ..., it_k[i], *args, **kwargs).
C4_Expected(req, i) ==
    [func |-> req.func,
     posargs |-> [j \in 1..Len(req.iterables) |-> req.iterables[j].items[i + 1]]
                 \o req.args.v,
     kwargs |-> req.kwargs.other,
     raised |-> "none"]

\* C4: a valid from_map call with k >= 1 iterables of common length N has
\* exactly N inputs in input order, and unit i calls
\* func(it_1[i], ..., it_k[i], *args, **kwargs): zipped and unpacked for
\* k >= 2, the single item as one positional argument for k = 1.
C4_UnitCallsFunc ==
    (op = "from_map" /\ raised = "none") =>
        LET N == Len(request.iterables[1].items)
        IN  /\ Len(request.iterables) >= 1
            /\ Len(layer.inputs) = N
            /\ \A i \in 0..(N - 1) : UnitCall(layer, i) = C4_Expected(request, i)
            /\ unit # NoUnit => unit.call = C4_Expected(request, unit.i)

\* C4's case: a unit of a one-iterable call whose item is itself a tuple has
\* run, with a fixed positional argument appended.
C4_Witness ==
    /\ op = "from_map"
    /\ unit # NoUnit
    /\ Len(request.iterables) = 1
    /\ unit.i = 1
    /\ request.iterables[1].items[2].tag = "tuple"
    /\ unit.call.posargs = <<request.iterables[1].items[2], Atom(9)>>
    /\ unit.call.kwargs # {}

\* The sum of the row counts of the first n row groups.
RECURSIVE RowsBefore(_, _)
RowsBefore(rgs, n) ==
    IF n = 0 THEN 0 ELSE RowsBefore(rgs, n - 1) + rgs[n].num_rows

\* The row groups of the dataset of a from_parquet request.
RequestRowGroups == AllRowGroups(request.ds.files, Len(request.ds.files))

\* One partition per row group, in file order then row-group order, with the
\* cumulative row counts as divisions.
OnePartitionPerRowGroup ==
    LET rgs == RequestRowGroups
        N   == Len(rgs)
    IN  /\ raised = "none"
        /\ layer # NoLayer
        /\ layer.io_func.kind = "_FromParquetFragmentWiseFn"
        /\ Len(layer.inputs) = N
        /\ \A k \in 1..N :
               layer.inputs[k] = Tuple(<<Atom(rgs[k].index), PathOf(rgs[k].file)>>)
        /\ Len(coll.divisions) = N + 1
        /\ \A k \in 1..(N + 1) :
               coll.divisions[k] = Known(RowsBefore(rgs, k - 1))

\* One partition per file, in path order, with unknown divisions.
OnePartitionPerFile ==
    LET F == Len(request.ds.files)
    IN  /\ raised = "none"
        /\ layer # NoLayer
        /\ layer.io_func.kind = "_FromParquetFileWiseFn"
        /\ layer.inputs = [f \in 1..F |-> PathOf(f)]
        /\ coll.divisions = [k \in 1..(F + 1) |-> Unknown]

\* C5: in row-group-granularity mode, with no row groups restricted by the
\* caller (also when the metadata names no file for its row groups), every
\* row group of every file is exactly one partition, in file order then
\* row-group order; N is the dataset's row-group count and divisions are the
\* N + 1 cumulative sums of the row counts, ending at the total row count.
C5_RowGroupPartitions ==
    (/\ op = "from_parquet"
     /\ SplitRowGroups(request.split_row_groups,
                       Metadata(request.ds, request.columns,
                                request.ignore_metadata).row_counts) = "True")
    => OnePartitionPerRowGroup

\* C6: split_row_groups=True always gives one partition per row group with
\* known divisions, split_row_groups=False always gives one partition per file
\* with unknown divisions, and split_row_groups=None gives row-group
\* granularity only if a _metadata file exists, ignore_metadata is false and
\* there is more than one row group, and file granularity otherwise.
C6_GranularityChoice ==
    op = "from_parquet" =>
        /\ request.split_row_groups = "True" => OnePartitionPerRowGroup
        /\ request.split_row_groups = "False" => OnePartitionPerFile
        /\ request.split_row_groups = "None" =>
               IF /\ request.ds.has_metadata
                  /\ ~request.ignore_metadata
                  /\ Len(RequestRowGroups) > 1
               THEN OnePartitionPerRowGroup
               ELSE OnePartitionPerFile

\* The reads of all partitions of the collection a from_parquet call builds,
\* in partition order.
ReadsOf(out) ==
    IF out.layer = NoLayer THEN <<>>
    ELSE [k \in 1..Len(out.layer.inputs) |-> UnitValue(out.layer, k - 1)]

\* C7: the caller's columns and the caller's filters both reach every
\* per-partition read, in both granularities: every read carries the columns,
\* and two calls that differ only in filters never perform the same reads for
\* all partitions.
C7_SelectionReachesReads ==
    (op = "from_parquet" /\ raised = "none") =>
        /\ \A k \in 0..(Len(layer.inputs) - 1) :
               UnitValue(layer, k).parquet_columns = request.columns
        /\ unit # NoUnit => unit.value.parquet_columns = request.columns
        /\ \A other \in FiltersArgs \ {request.filters} :
               ReadsOf(FromParquet(request.ds, request.ignore_metadata, FALSE,
                                   request.columns, other,
                                   request.split_row_groups))
               # ReadsOf([layer |-> layer])

\* C8: from_delayed over N handles (one handle is N = 1) maps one graph key to
\* each handle's key, in order; with divisions omitted the collection has
\* N + 1 unknown divisions; with divisions of another length than N + 1 a
\* ValueError is raised and no collection returned; and every collection
\* returned has N + 1 divisions that are all known or all unknown.
C8_DelayedDivisions ==
    op = "from_delayed" =>
        LET N == Len(request.source.handles)
            d == request.divisions
        IN  /\ d.none =>
                   /\ raised = "none"
                   /\ coll.divisions = [i \in 1..(N + 1) |-> Unknown]
            /\ (~d.none /\ Len(d.v) # N + 1) =>
                   /\ raised = "ValueError: divisions must be a tuple of length len(source) + 1"
                   /\ coll = NoCollection
            /\ raised = "none" =>
                   /\ layer.dsk = request.source.handles
                   /\ Len(coll.divisions) = N + 1
                   /\ \/ \A i \in 1..(N + 1) : coll.divisions[i].known
                      \/ \A i \in 1..(N + 1) : ~coll.divisions[i].known

\* The number of decimal digits of n >= 0.
DecimalDigits(n) ==
    CHOOSE d \in 1..(n + 1) : Pow10(d - 1) <= Max(n, 1) /\ n < Pow10(d)

\* The number a sequence of decimal characters reads as.
RECURSIVE DigitsValue(_)
DigitsValue(ds) ==
    IF Len(ds) = 0 THEN 0
    ELSE 10 * DigitsValue(SubSeq(ds, 1, Len(ds) - 1))
         + (CHOOSE d \in 0..9 : DigitChars[d + 1] = ds[Len(ds)])

\* The characters between "part" and ".parquet" in a path.
DigitsOfPath(path) == SubSeq(path, 4, Len(path) - 1)

\* path is <root>/part{K}.parquet with K in decimal, left-padded with zeros
\* to width w.
NamedPart(path, K, w) ==
    /\ Len(path) >= 5
    /\ SubSeq(path, 1, 3) = <<"root", "/", "part">>
    /\ path[Len(path)] = ".parquet"
    /\ \A i \in 1..Len(DigitsOfPath(path)) :
           \E d \in 0..9 : DigitChars[d + 1] = DigitsOfPath(path)[i]
    /\ Len(DigitsOfPath(path)) = Max(w, DecimalDigits(K))
    /\ DigitsValue(DigitsOfPath(path)) = K

\* The data files under the root: every path but <root>/_metadata.
DataFiles == files \ {<<"root", "/", "_metadata">>}

\* C9 as stated: partition K of N is written to <root>/part{K}.parquet with K
\* left-padded with zeros to the number of decimal digits of N.
C9_Original ==
    op = "to_parquet" =>
        \A k \in 0..(request.npartitions - 1) :
            writers[k + 1].pc # "pending" =>
                NamedPart(writers[k + 1].path, k,
                          DecimalDigits(request.npartitions))

\* C9 as amended: partition K of N is written to <root>/part{K}.parquet with
\* K left-padded with zeros to the number of decimal digits of N - 1, the
\* largest partition index.
C9_PaddedToLargestIndex ==
    op = "to_parquet" =>
        \A k \in 0..(request.npartitions - 1) :
            writers[k + 1].pc # "pending" =>
                /\ NamedPart(writers[k + 1].path, k,
                             DecimalDigits(request.npartitions - 1))
                /\ writers[k + 1].path \in files

\* C9's case: partition 0 of a collection of ten partitions was written, to
\* part0.parquet.
C9_Witness ==
    /\ op = "to_parquet"
    /\ request.npartitions = 10
    /\ writers[1].pc = "done"
    /\ writers[1].path = <<"root", "/", "part", "0", ".parquet">>

\* C10: under every interleaving of the N write units no two units open the
\* same path: the file name is injective in the partition index, each unit
\* opens only the path of its own index, and once all units have finished the
\* data files are the same N paths whatever the order was.
C10_DistinctPaths ==
    /\ \A n \in 1..MaxNPartitions : \A j, k \in 0..(n - 1) :
           j # k => FilenameOf(ToParquetFn("root", n), j)
                    # FilenameOf(ToParquetFn("root", n), k)
    /\ op = "to_parquet" =>
           LET N       == request.npartitions
               started == {k \in 1..N : writers[k].pc # "pending"}
           IN  /\ \A j, k \in started : j # k => writers[j].path # writers[k].path
               /\ \A k \in started : DigitsValue(DigitsOfPath(writers[k].path)) = k - 1
               /\ DataFiles = {writers[k].path : k \in started}
               /\ Cardinality(DataFiles) = Cardinality(started)
               /\ (\A k \in 1..N : writers[k].pc = "done") =>
                      /\ Cardinality(DataFiles) = N
                      /\ {DigitsValue(DigitsOfPath(f)) : f \in DataFiles} = 0..(N - 1)

\* C10's case: two write units hold their files open at the same time, the
\* later partition having started first.
C10_Witness ==
    /\ op = "to_parquet"
    /\ request.npartitions >= 3
    /\ writers[1].pc = "pending"
    /\ writers[2].pc = "open"
    /\ writers[3].pc = "open"
    /\ writers[2].path # writers[3].path

\* C11: in a to_parquet run the final unit acts only once all N write units
\* have finished; with write_metadata=True it is handed the per-file
\* metadata object of each of the N written files, merges them without
\* failing and writes <root>/_metadata; with write_metadata=False no
\* _metadata file exists.
C11_MetadataFinalUnit ==
    op = "to_parquet" =>
        /\ final # "pending" =>
               \A k \in 1..request.npartitions : writers[k].pc = "done"
        /\ (request.write_metadata /\ final # "pending") =>
               /\ \A k \in 1..request.npartitions :
                      DaskKeysResults[k] = <<[meta |-> k - 1]>>
               /\ final = "done"
               /\ raised = "none"
               /\ MetadataPath("root") \in files
        /\ ~request.write_metadata => MetadataPath("root") \notin files

\* C12: to_dask_array on a collection whose representative value is unknown
\* raises the "metadata required" ValueError at the call: no layer is added,
\* no collection is returned and no unit ever runs for it.
C12_MetaRequiredAtCallTime ==
    (op = "to_dask_array" /\ request.array.meta = "None") =>
        /\ raised = "ValueError: Array metadata required for determining dtype"
        /\ layer = NoLayer
        /\ coll = NoCollection
        /\ unit = NoUnit

C12_Witness ==
    /\ op = "to_dask_array"
    /\ request.array.meta = "None"
    /\ NPartitions(request.array) > 1
    /\ raised # "none"

\* What the name of a from_map collection is said to identify: the label or
\* the function's name, the function, the input iterables in order, and the
\* declared options (args, keyword arguments, meta).
SameIdentity(a, b) ==
    /\ (IF a.label = "None" THEN a.func.id ELSE a.label)
           = (IF b.label = "None" THEN b.func.id ELSE b.label)
    /\ a.func = b.func
    /\ ItersOf(a.iterables) = ItersOf(b.iterables)
    /\ a.args = b.args
    /\ a.kwargs.other = b.kwargs.other
    /\ a.meta = b.meta

\* C13: two calls of from_map without a token get the same name exactly when
\* they agree on label or function name, function, ordered input iterables,
\* args, keyword arguments and meta; calls that differ in one of these, for
\* example only in args, get different names.
C13_NameIsIdentity ==
    (op = "from_map_again" /\ raised = "none") =>
        (SameIdentity(request.first, request.second)
            <=> coll.name = request.first_name)

====
